---- MODULE Spec2Model ----
(***************************************************************************)
(* A state-machine model of amdgpu-tweakd (src/amdgpu_tweakd.py): the      *)
(* SysfsOverride ledger, the FanController tick, the update_loop task and  *)
(* the main_async sleep/wake loop running on the asyncio event loop.       *)
(*                                                                         *)
(* File contents are modelled by the integer the kernel parses from them.  *)
(* Temperatures are the raw temp1_input readings (milli-degrees Celsius).  *)
(***************************************************************************)
EXTENDS Integers, Sequences, FiniteSets, TLC

VARIABLES
    files,          \* the hardware control files: [Paths -> value]
    orig_files,     \* history: the files as they were before the daemon started
    unplugged,      \* the devices whose hardware files have disappeared
    prev_values,    \* SysfsOverride.prev_values: insertion-ordered <<[key, value]>>
    set_count,      \* history: successful ledger writes per path, counted 0, 1, many
    fan_controllers,\* update_loop's fan_controllers: a list of FanController
    configs,        \* main's parsed_sections: the list of DeviceConfig
    wake_event,     \* main_async's wake_event: is the asyncio.Event set
    update_task,    \* update_loop_task: "none", or where the task stands
    update_cancel,  \* a cancel() of update_loop_task is waiting to be delivered
    main_pc,        \* where main_task is suspended
    main_waiter,    \* the future of wake_event.wait(): "none", "pending", "set", "cancelled"
    main_must_cancel, \* main_task._must_cancel
    restore_count,  \* history: runs of the current cycle's finally block, counted 0, 1, many
    cancel_requests,\* history: cancel() calls that reached the current cycle, counted 0, 1, many
    sleep_pending,  \* history: a sleep event hit a running cycle and no wake event followed yet
    awaiting_restart, \* history: a wake event followed a sleep event and no cycle started since
    sig_seen,       \* history: SIGINT/SIGTERM was delivered
    last            \* history: the operation that produced this state

cycleVars == <<prev_values, fan_controllers>>
taskVars == <<wake_event, update_task, update_cancel, main_pc, main_waiter, main_must_cancel>>
histVars == <<restore_count, cancel_requests, sleep_pending, awaiting_restart, sig_seen>>
daemonVars == <<configs, taskVars, histVars>>
vars == <<files, orig_files, unplugged, prev_values, set_count, fan_controllers, daemonVars, last>>

\* ------------------------------------------------------------------ bounds

NumDevices == 2         \* amdgpu devices in the machine
MaxValue == 2           \* values a ledger client writes: 1..MaxValue
MaxPow == 2             \* fan_curve_pow ranges over 0..MaxPow
MaxCandidates == 2      \* sections in a candidate list given to best_match

\* --------------------------------------------------------------- hardware

Devices == 1..NumDevices
FileNames == {"pwm1", "pwm1_enable", "power1_cap"}
Paths == Devices \X FileNames

PwmEnableManual == 1    \* b'1', the manual mode of pwm1_enable

\* The machine the daemon is started on: what the control files hold at boot
\* and what the read-only hwmon attributes report.
Hwmon == [pwm1 |-> 100, power1_cap |-> 200, pwm1_enable_auto |-> 2,
          pwm1_min |-> 0, pwm1_max |-> 255, temp1_crit |-> 95000]

InitFiles ==
    {f \in [Paths -> {PwmEnableManual, Hwmon.pwm1_enable_auto, Hwmon.pwm1, Hwmon.power1_cap}] :
        \A d \in Devices :
            /\ f[<<d, "pwm1">>] = Hwmon.pwm1
            /\ f[<<d, "power1_cap">>] = Hwmon.power1_cap
            /\ f[<<d, "pwm1_enable">>] \in {PwmEnableManual, Hwmon.pwm1_enable_auto}}

\* ---------------------------------------------------------- SysfsOverride

Keys(prev) == {prev[i].key : i \in 1..Len(prev)}

Recorded(prev, k) == prev[CHOOSE i \in 1..Len(prev) : prev[i].key = k].value

\* SysfsOverride.write: a failed write is logged; with warn_overdrive the
\* feature-mask file is then read, and that read is not guarded.
SysfsWrite(fs, path, value, warn_overdrive, wr_ok, mask_ok) ==
    IF wr_ok
    THEN [files |-> [fs EXCEPT ![path] = value], raised |-> FALSE]
    ELSE [files |-> fs, raised |-> warn_overdrive /\ ~mask_ok]

\* A plausible slip: the original is recorded on every set.
SetItemOverwrites(prev, fs, key, value, rd_ok, wr_ok, mask_ok) ==
    IF ~rd_ok
    THEN [prev |-> prev, files |-> fs, raised |-> FALSE, wrote |-> FALSE]
    ELSE LET kept == SelectSeq(prev, LAMBDA e : e.key # key)
             w == SysfsWrite(fs, key, value, TRUE, wr_ok, mask_ok)
         IN  [prev |-> Append(kept, [key |-> key, value |-> fs[key]]),
              files |-> w.files, raised |-> w.raised, wrote |-> TRUE]

\* A plausible slip: the read failure is logged but the write still happens.
SetItemWritesAnyway(prev, fs, key, value, rd_ok, wr_ok, mask_ok) ==
    LET p2 == IF key \in Keys(prev) \/ ~rd_ok THEN prev
              ELSE Append(prev, [key |-> key, value |-> fs[key]])
        w == SysfsWrite(fs, key, value, TRUE, wr_ok, mask_ok)
    IN  [prev |-> p2, files |-> w.files, raised |-> w.raised, wrote |-> TRUE]

\* SysfsOverride.__setitem__
SetItem(prev, fs, key, value, rd_ok, wr_ok, mask_ok) ==
    IF key \notin Keys(prev) /\ ~rd_ok
    THEN [prev |-> prev, files |-> fs, raised |-> FALSE, wrote |-> FALSE]
    ELSE LET p2 == IF key \in Keys(prev) THEN prev
                   ELSE Append(prev, [key |-> key, value |-> fs[key]])
             w == SysfsWrite(fs, key, value, TRUE, wr_ok, mask_ok)
         IN  [prev |-> p2, files |-> w.files, raised |-> w.raised, wrote |-> TRUE]

\* SysfsOverride.rollback: one write per recorded path, in insertion order;
\* `failed` are the paths whose write fails.
RECURSIVE RollbackFrom(_, _, _, _)
RollbackFrom(prev, fs, failed, i) ==
    IF i > Len(prev)
    THEN [files |-> fs, log |-> <<>>, raised |-> FALSE]
    ELSE LET e == prev[i]
             w == SysfsWrite(fs, e.key, e.value, FALSE, e.key \notin failed, TRUE)
             entry == [op |-> "rollback", key |-> e.key, value |-> e.value,
                       ok |-> e.key \notin failed]
         IN  IF w.raised
             THEN [files |-> w.files, log |-> <<entry>>, raised |-> TRUE]
             ELSE LET rest == RollbackFrom(prev, w.files, failed, i + 1)
                  IN  [files |-> rest.files, log |-> <<entry>> \o rest.log,
                       raised |-> rest.raised]

Rollback(prev, fs, failed) == RollbackFrom(prev, fs, failed, 1)

\* ---------------------------------------------------------- DeviceConfig

\* An optional value: None is <<>>, a value v is <<v>>.
Nothing == <<>>
Some(v) == <<v>>
IsNone(x) == x = <<>>
Get(x) == x[1]

DefaultTempMin == 40        \* DEVICE_CONFIG_DEFAULTS['temp_min']
DefaultCurvePow == 2        \* DEVICE_CONFIG_DEFAULTS['fan_curve_pow']
DefaultHyst == 5            \* DEVICE_CONFIG_DEFAULTS['fan_semi_passive_hyst']
DefaultPwmMin == 0          \* getsysfs('pwm1_min', 0.0)
DefaultPwmMax == 255        \* getsysfs('pwm1_max', 255.0)
DefaultTempCrit == 90000    \* getsysfs('temp1_crit', 90000.0)
CritMargin == 5             \* ... / 1000.0 - 5.0
MilliPerDegree == 1000      \* temp1_input and temp1_crit are in milli-degrees

\* A section with no option set: parse_device_config fills in the defaults.
DefaultConfig ==
    [name |-> "DEFAULT",
     pci_id |-> Nothing, pci_slot_name |-> Nothing, pci_subsys_id |-> Nothing,
     device |-> Nothing, vbios_version |-> Nothing,
     fan_control |-> FALSE,
     fan_pwm_min |-> Nothing, fan_pwm_max |-> Nothing,
     temp_min |-> DefaultTempMin, temp_max |-> Nothing,
     fan_curve_pow |-> DefaultCurvePow,
     fan_semi_passive |-> FALSE, fan_semi_passive_hyst |-> DefaultHyst,
     power_cap |-> Nothing]

\* --------------------------------------------------------- FanController
\* Temperatures are kept in milli-degrees, so that t/1000.0 < temp_min is the
\* integer comparison t < 1000 * temp_min.

Milli(c) == c * MilliPerDegree
Max(a, b) == IF a >= b THEN a ELSE b
Abs(a) == IF a >= 0 THEN a ELSE -a

RECURSIVE Pow(_, _)
Pow(b, e) == IF e = 0 THEN 1 ELSE b * Pow(b, e - 1)   \* pow(0.0, 0) is 1.0

RECURSIVE Gcd(_, _)
Gcd(a, b) == IF b = 0 THEN a ELSE Gcd(b, a % b)

\* int(a / b): truncation toward zero
TruncDiv(a, b) ==
    IF (a >= 0) = (b > 0) THEN Abs(a) \div Abs(b) ELSE -(Abs(a) \div Abs(b))

\* FanController.__init__; `readable` are the hwmon attributes getsysfs can
\* read (an unreadable one falls back to its default).
FanControllerInit(dev, config, readable) ==
    LET getsysfs(key, default) == IF key \in readable THEN Hwmon[key] ELSE default
        pwm_min == IF IsNone(config.fan_pwm_min)
                   THEN getsysfs("pwm1_min", DefaultPwmMin)
                   ELSE Get(config.fan_pwm_min)
        pwm_max == IF IsNone(config.fan_pwm_max)
                   THEN getsysfs("pwm1_max", DefaultPwmMax)
                   ELSE Get(config.fan_pwm_max)
        temp_max == IF IsNone(config.temp_max)
                    THEN getsysfs("temp1_crit", DefaultTempCrit) - Milli(CritMargin)
                    ELSE Milli(Get(config.temp_max))
        temp_min == Milli(config.temp_min)
    IN  [dev |-> dev,
         pwm_min |-> pwm_min, pwm_max |-> pwm_max,
         temp_min |-> temp_min, temp_max |-> temp_max,
         semi_passive |-> config.fan_semi_passive,
         semi_passive_hyst |-> Milli(config.fan_semi_passive_hyst),
         curve_pow |-> config.fan_curve_pow,
         pwm_delta |-> pwm_max - pwm_min,
         temp_delta |-> temp_max - temp_min,
         turned_off |-> FALSE,
         prev_pwm_enable |-> Nothing]

\* A plausible slip: max(0.0, ...) is dropped, so a reading below temp_min
\* gives a negative fraction.
CurvePwmNoFloor(fan, t) ==
    LET over == t - fan.temp_min
        clamp == fan.temp_delta > 0 /\ over >= fan.temp_delta
        g == Gcd(Abs(over), Abs(fan.temp_delta))
        num == IF clamp THEN 1 ELSE over \div g
        den == IF clamp THEN 1 ELSE fan.temp_delta \div g
    IN  TruncDiv(fan.pwm_min * Pow(den, fan.curve_pow)
                    + fan.pwm_delta * Pow(num, fan.curve_pow),
                 Pow(den, fan.curve_pow))

\* A plausible slip: min(1.0, ...) is dropped, so a reading above temp_max
\* gives a fraction above 1.
CurvePwmNoCeiling(fan, t) ==
    LET over == Max(0, t - fan.temp_min)
        g == Gcd(over, Abs(fan.temp_delta))
        num == over \div g
        den == fan.temp_delta \div g
    IN  TruncDiv(fan.pwm_min * Pow(den, fan.curve_pow)
                    + fan.pwm_delta * Pow(num, fan.curve_pow),
                 Pow(den, fan.curve_pow))

\* A plausible slip: round(value) instead of int(value).
CurvePwmRounds(fan, t) ==
    LET over == Max(0, t - fan.temp_min)
        clamp == fan.temp_delta > 0 /\ over >= fan.temp_delta
        g == Gcd(over, Abs(fan.temp_delta))
        num == IF clamp THEN 1 ELSE over \div g
        den == IF clamp THEN 1 ELSE fan.temp_delta \div g
    IN  TruncDiv(2 * (fan.pwm_min * Pow(den, fan.curve_pow)
                        + fan.pwm_delta * Pow(num, fan.curve_pow))
                    + Pow(den, fan.curve_pow),
                 2 * Pow(den, fan.curve_pow))

\* Lines 132-133 for a sample t: the value the pwm setter writes, int(...) of
\* pwm_min + pwm_delta * pow(temp_fraction, curve_pow).
CurvePwm(fan, t) ==
    LET over == Max(0, t - fan.temp_min)
        clamp == fan.temp_delta > 0 /\ over >= fan.temp_delta
        g == Gcd(over, Abs(fan.temp_delta))     \* the fraction in lowest terms
        num == IF clamp THEN 1 ELSE over \div g
        den == IF clamp THEN 1 ELSE fan.temp_delta \div g
    IN  TruncDiv(fan.pwm_min * Pow(den, fan.curve_pow)
                    + fan.pwm_delta * Pow(num, fan.curve_pow),
                 Pow(den, fan.curve_pow))

\* Where one tick's I/O fails, if anywhere: the read or the write of
\* pwm1_enable, the temp1_input read of line 122, 127 or 132, or the pwm1 write.
FailPoints == {"none", "rd_enable", "wr_enable",
               "rd_temp_a", "rd_temp_b", "rd_temp_c", "wr_pwm"}

TickResult(fan, fs, raised, seen, pwm) ==
    [fan |-> fan, files |-> fs, raised |-> raised, seen |-> seen, pwm |-> pwm]

\* self.pwm = value
WritePwm(fan, fs, value, fail, seen) ==
    IF fail = "wr_pwm"
    THEN TickResult(fan, fs, TRUE, seen, Nothing)
    ELSE TickResult(fan, [fs EXCEPT ![<<fan.dev, "pwm1">>] = value], FALSE, seen, Some(value))

\* A plausible slip: the hysteresis test is dropped, so the latch holds the
\* fan off only below temp_min.
FanUpdateTempNoHyst(fan, fs, reads, fail) ==
    IF fan.semi_passive /\ fail = "rd_temp_a"
    THEN TickResult(fan, fs, TRUE, <<>>, Nothing)
    ELSE IF fan.semi_passive /\ reads[1] < fan.temp_min
    THEN LET w == WritePwm(fan, fs, 0, fail, <<reads[1]>>)
         IN  IF w.raised THEN w
             ELSE [w EXCEPT !.fan = [fan EXCEPT !.turned_off = TRUE]]
    ELSE LET seenA == IF fan.semi_passive THEN <<reads[1]>> ELSE <<>>
             fan2 == [fan EXCEPT !.turned_off = FALSE]
         IN  IF fail = "rd_temp_c" \/ fan.temp_delta = 0
             THEN TickResult(fan2, fs, TRUE, seenA, Nothing)
             ELSE WritePwm(fan2, fs, CurvePwm(fan2, reads[3]), fail,
                           Append(seenA, reads[3]))

\* FanController.update, lines 122-133: each use of self.temp reads the
\* sensor again; reads[1..3] are what the three reads return.
FanUpdateTemp(fan, fs, reads, fail) ==
    IF fan.semi_passive /\ fail = "rd_temp_a"
    THEN TickResult(fan, fs, TRUE, <<>>, Nothing)
    ELSE IF fan.semi_passive /\ reads[1] < fan.temp_min
    THEN LET w == WritePwm(fan, fs, 0, fail, <<reads[1]>>)
         IN  IF w.raised THEN w
             ELSE [w EXCEPT !.fan = [fan EXCEPT !.turned_off = TRUE]]
    ELSE LET seenA == IF fan.semi_passive THEN <<reads[1]>> ELSE <<>>
         IN  IF fan.turned_off /\ fail = "rd_temp_b"
             THEN TickResult(fan, fs, TRUE, seenA, Nothing)
             ELSE IF fan.turned_off
                     /\ reads[2] < fan.temp_min + fan.semi_passive_hyst
             THEN WritePwm(fan, fs, 0, fail, Append(seenA, reads[2]))
             ELSE LET seenB == IF fan.turned_off THEN Append(seenA, reads[2])
                               ELSE seenA
                      fan2 == [fan EXCEPT !.turned_off = FALSE]
                  IN  IF fail = "rd_temp_c"
                      THEN TickResult(fan2, fs, TRUE, seenB, Nothing)
                      ELSE IF fan.temp_delta = 0      \* ZeroDivisionError
                      THEN TickResult(fan2, fs, TRUE, Append(seenB, reads[3]), Nothing)
                      ELSE WritePwm(fan2, fs, CurvePwm(fan2, reads[3]), fail,
                                    Append(seenB, reads[3]))

\* A plausible slip: the test of line 117 is dropped, so every tick takes
\* the snapshot and writes the manual mode again.
FanUpdateSnapshotsAlways(fan, fs, reads, fail) ==
    LET enable == <<fan.dev, "pwm1_enable">>
        fan1 == [fan EXCEPT !.prev_pwm_enable = Some(fs[enable])]
    IN  IF fail = "rd_enable"
        THEN TickResult(fan, fs, TRUE, <<>>, Nothing)
        ELSE IF fail = "wr_enable"
        THEN TickResult(fan1, fs, TRUE, <<>>, Nothing)
        ELSE FanUpdateTemp(fan1, [fs EXCEPT ![enable] = PwmEnableManual], reads, fail)

\* FanController.update
FanUpdate(fan, fs, reads, fail) ==
    LET enable == <<fan.dev, "pwm1_enable">>
        cur == fs[enable]
        take == cur # PwmEnableManual
        fan1 == IF take THEN [fan EXCEPT !.prev_pwm_enable = Some(cur)] ELSE fan
    IN  IF fail = "rd_enable"
        THEN TickResult(fan, fs, TRUE, <<>>, Nothing)
        ELSE IF take /\ fail = "wr_enable"
        THEN TickResult(fan1, fs, TRUE, <<>>, Nothing)
        ELSE FanUpdateTemp(fan1,
                           IF take THEN [fs EXCEPT ![enable] = PwmEnableManual] ELSE fs,
                           reads, fail)

\* FanController.restore_pwm_enable
RestorePwmEnable(fan, fs, wr_ok) ==
    IF IsNone(fan.prev_pwm_enable)
    THEN [files |-> fs, raised |-> FALSE, wrote |-> FALSE]
    ELSE IF wr_ok
    THEN [files |-> [fs EXCEPT ![<<fan.dev, "pwm1_enable">>] = Get(fan.prev_pwm_enable)],
          raised |-> FALSE, wrote |-> TRUE]
    ELSE [files |-> fs, raised |-> TRUE, wrote |-> TRUE]

\* The unit specifications below drive one object directly: no daemon runs.
NoDaemon ==
    /\ configs = <<>>
    /\ wake_event = TRUE
    /\ update_task = "none"
    /\ update_cancel = FALSE
    /\ main_pc = "none"
    /\ main_waiter = "none"
    /\ main_must_cancel = FALSE
    /\ restore_count = 0
    /\ cancel_requests = 0
    /\ sleep_pending = FALSE
    /\ awaiting_restart = FALSE
    /\ sig_seen = FALSE

\* ------------------------------------------- LedgerSpec: one SysfsOverride
\* One ledger instance driven by an arbitrary client: any sequence of set
\* operations and rollbacks, every read and write free to fail.

LedgerPaths == Devices \X {"power1_cap"}
Many(n) == IF n = 0 THEN 1 ELSE 2
LedgerValues == 1..MaxValue

LedgerInit ==
    /\ files \in {f \in InitFiles :
                    \A d \in Devices : f[<<d, "pwm1_enable">>] = Hwmon.pwm1_enable_auto}
    /\ orig_files = files
    /\ unplugged = {}
    /\ prev_values = <<>>
    /\ set_count = [p \in Paths |-> 0]
    /\ fan_controllers = <<>>
    /\ NoDaemon
    /\ last = [op |-> "init"]

\* An I/O outcome the operation does not reach (the read of a recorded path,
\* the write after a failed read, the ppfeaturemask read after a successful
\* write) is fixed to success, so that it is not enumerated.
LedgerSet(key, value) ==
    \E rd_ok, wr_ok, mask_ok \in BOOLEAN :
        /\ key \in Keys(prev_values) => rd_ok
        /\ ~rd_ok => wr_ok
        /\ wr_ok => mask_ok
        /\ LET r == SetItem(prev_values, files, key, value, rd_ok, wr_ok, mask_ok)
           IN  /\ files' = r.files
               /\ prev_values' = r.prev
               /\ last' = [op |-> "set", key |-> key, value |-> value,
                           read_failed |-> (key \notin Keys(prev_values) /\ ~rd_ok),
                           wrote |-> r.wrote, write_ok |-> (r.wrote /\ wr_ok),
                           raised |-> r.raised]
               /\ set_count' = IF r.wrote /\ wr_ok
                                THEN [set_count EXCEPT ![key] = Many(@)]
                                ELSE set_count
               /\ UNCHANGED <<orig_files, unplugged, fan_controllers, daemonVars>>

LedgerRollback ==
    \E failed \in SUBSET Keys(prev_values) :
        LET r == Rollback(prev_values, files, failed)
        IN  /\ files' = r.files
            /\ last' = [op |-> "rollback", log |-> r.log]
            /\ UNCHANGED <<prev_values, orig_files, unplugged, set_count, fan_controllers, daemonVars>>

LedgerNext ==
    \/ \E key \in LedgerPaths, value \in LedgerValues : LedgerSet(key, value)
    \/ LedgerRollback

LedgerSpec == LedgerInit /\ [][LedgerNext]_vars

\* C2: in one ledger instance, whatever sets and rollbacks came before, the
\* original recorded for a path is the value the file held before the first
\* write (each path recorded once), and every value a rollback writes is that
\* first-recorded value.
LedgerFirstWriteWins ==
    /\ \A i, j \in 1..Len(prev_values) :
            prev_values[i].key = prev_values[j].key => i = j
    /\ \A i \in 1..Len(prev_values) :
            prev_values[i].value = orig_files[prev_values[i].key]
    /\ last.op = "rollback" =>
            /\ Len(last.log) = Len(prev_values)
            /\ \A i \in 1..Len(last.log) :
                    /\ last.log[i].key = prev_values[i].key
                    /\ last.log[i].value = orig_files[last.log[i].key]
                    /\ last.log[i].ok => files[last.log[i].key] = orig_files[last.log[i].key]

\* Witness of C2: a rollback that succeeds on a path the ledger had written
\* at least twice, another path having been written as well.
LedgerFirstWriteWinsWitness ==
    /\ last.op = "rollback"
    /\ \E k \in LedgerPaths :
            /\ set_count[k] = 2
            /\ \E i \in 1..Len(last.log) : last.log[i].key = k /\ last.log[i].ok
            /\ \E k2 \in LedgerPaths \ {k} : set_count[k2] >= 1

\* C3: the ledger writes only paths it holds an original for, and a set whose
\* read of the current value fails writes nothing, records nothing and
\* leaves every file as it was.
LedgerNeverWritesUnrecorded ==
    /\ [](last.op = "set" /\ last.wrote => last.key \in Keys(prev_values))
    /\ [](last.op = "rollback" =>
            \A i \in 1..Len(last.log) : last.log[i].key \in Keys(prev_values))
    /\ [][(last'.op = "set" /\ last'.read_failed) =>
            /\ ~last'.wrote
            /\ files' = files
            /\ prev_values' = prev_values
            /\ last'.key \notin Keys(prev_values')]_vars

\* Witness of C3: a set whose read failed, on a ledger that already holds
\* another path.
LedgerReadFailedWitness ==
    /\ last.op = "set"
    /\ last.read_failed
    /\ prev_values # <<>>

\* ------------------------------------------- FanSpec: one FanController
\* One controller on device 1, ticked and restored in any order; every tick
\* reads arbitrary sensor values and may fail at any of its I/O operations.

\* temp1_input samples: below temp_min, at it, inside the hysteresis band, at
\* temp_min + hyst, just above it, and at the top of the curve.
SensorValues == {39000, 40000, 42000, 45000, 46000, 90000}

\* What the three sensor reads of one tick return. A read the tick cannot
\* reach (line 122 without semi_passive, line 127 without the latch) is
\* given the value of the last one, so that it is not enumerated.
TickReads(fan, samples) ==
    {r \in samples \X samples \X samples :
        /\ ~fan.semi_passive => r[1] = r[3]
        /\ ~fan.turned_off => r[2] = r[3]}

FanSpecConfigs ==
    {[DefaultConfig EXCEPT !.fan_control = TRUE,
                           !.fan_semi_passive = sp,
                           !.fan_curve_pow = p] :
        sp \in BOOLEAN, p \in 0..MaxPow}

HwmonAttrs == {"pwm1_min", "pwm1_max", "temp1_crit"}

SeenFirst(seen) == IF seen = <<>> THEN Nothing ELSE Some(seen[1])
SeenMax(seen) ==
    IF seen = <<>> THEN Nothing
    ELSE Some(CHOOSE t \in {seen[i] : i \in 1..Len(seen)} :
                \A i \in 1..Len(seen) : seen[i] <= t)

TickRecord(before, r) ==
    [op |-> "tick", dev |-> before.dev, was_off |-> before.turned_off,
     first |-> SeenFirst(r.seen), max |-> SeenMax(r.seen),
     pwm |-> r.pwm, raised |-> r.raised]

FanInit ==
    /\ files \in {f \in InitFiles :
                    \A d \in Devices \ {1} : f[<<d, "pwm1_enable">>] = Hwmon.pwm1_enable_auto}
    /\ orig_files = files
    /\ unplugged = {}
    /\ prev_values = <<>>
    /\ set_count = [p \in Paths |-> 0]
    /\ \E config \in FanSpecConfigs, readable \in {{}, HwmonAttrs} :
            fan_controllers = <<FanControllerInit(1, config, readable)>>
    /\ NoDaemon
    /\ last = [op |-> "init"]

FanTick ==
    \E reads \in TickReads(fan_controllers[1], SensorValues), fail \in FailPoints :
        LET r == FanUpdate(fan_controllers[1], files, reads, fail)
        IN  /\ files' = r.files
            /\ fan_controllers' = <<r.fan>>
            /\ last' = TickRecord(fan_controllers[1], r)
            /\ UNCHANGED <<orig_files, unplugged, prev_values, set_count, daemonVars>>

FanRestore ==
    \E wr_ok \in BOOLEAN :
        LET r == RestorePwmEnable(fan_controllers[1], files, wr_ok)
        IN  /\ files' = r.files
            /\ last' = [op |-> "restore", dev |-> 1, wrote |-> r.wrote, raised |-> r.raised]
            /\ UNCHANGED <<orig_files, unplugged, prev_values, set_count, fan_controllers, daemonVars>>

FanNext == FanTick \/ FanRestore

FanSpec == FanInit /\ [][FanNext]_vars

HystThreshold(fan) == fan.temp_min + fan.semi_passive_hyst

\* C10 as stated: with semi_passive on and the latch set, a tick that ran to
\* its end and read no temperature exceeding temp_min + semi_passive_hyst
\* wrote 0 to pwm1.
HysteresisUntilExceeds ==
    (/\ last.op = "tick"
     /\ fan_controllers[1].semi_passive
     /\ last.was_off
     /\ ~last.raised
     /\ ~IsNone(last.max)
     /\ Get(last.max) <= HystThreshold(fan_controllers[1]))
    => last.pwm = Some(0)

\* C10 as amended: with semi_passive on, a tick that read a temperature below
\* temp_min and wrote pwm1 wrote 0 and set the latch; and with the latch set,
\* a tick that read no temperature at or above temp_min + semi_passive_hyst
\* wrote 0 (or, cut short by an I/O failure, nothing) and left the latch set.
HysteresisUntilReached ==
    (last.op = "tick" /\ fan_controllers[1].semi_passive) =>
        /\ (/\ ~last.raised
            /\ Get(last.first) < fan_controllers[1].temp_min)
           => (last.pwm = Some(0) /\ fan_controllers[1].turned_off)
        /\ (/\ last.was_off
            /\ (IsNone(last.max) \/ Get(last.max) < HystThreshold(fan_controllers[1])))
           => /\ fan_controllers[1].turned_off
              /\ last.pwm \in {Nothing, Some(0)}
              /\ ~last.raised => last.pwm = Some(0)

\* Witness of C10: the latch holds the fan at 0 through a tick whose every
\* reading is above temp_min and below the threshold.
HysteresisWitness ==
    /\ last.op = "tick"
    /\ fan_controllers[1].semi_passive
    /\ last.was_off
    /\ ~last.raised
    /\ Get(last.first) > fan_controllers[1].temp_min
    /\ Get(last.max) < HystThreshold(fan_controllers[1])
    /\ last.pwm = Some(0)
    /\ fan_controllers[1].turned_off

\* ----------------------------------------------------- DeviceMatchingInfo

\* DeviceMatchingInfo.data's keys, in the order __init__ fills them
IdKeys == <<"pci_id", "pci_slot_name", "pci_subsys_id", "device", "vbios_version">>

\* DeviceMatchingInfo.__init__ for device d: every amdgpu card of the machine
\* is the same model, in its own slot.
SlotNames == <<"0000:01:00.0", "0000:02:00.0", "0000:03:00.0", "0000:04:00.0">>

DeviceData(d) ==
    [pci_id |-> Some("1002:67DF"), pci_slot_name |-> Some(SlotNames[d]),
     pci_subsys_id |-> Some("1DA2:E353"), device |-> Some("0x67df"),
     vbios_version |-> Some("113-1E3660EU-O55")]

\* DeviceMatchingInfo.match
RECURSIVE MatchFrom(_, _, _, _)
MatchFrom(data, config, i, score) ==
    IF i > Len(IdKeys) THEN score
    ELSE IF IsNone(config[IdKeys[i]]) THEN MatchFrom(data, config, i + 1, score)
    ELSE IF data[IdKeys[i]] # config[IdKeys[i]] THEN -1
    ELSE MatchFrom(data, config, i + 1, score + 1)

\* A plausible slip: a mismatching key is skipped instead of returning -1.
RECURSIVE MatchSkipsMismatchFrom(_, _, _, _)
MatchSkipsMismatchFrom(data, config, i, score) ==
    IF i > Len(IdKeys) THEN score
    ELSE IF IsNone(config[IdKeys[i]]) \/ data[IdKeys[i]] # config[IdKeys[i]]
    THEN MatchSkipsMismatchFrom(data, config, i + 1, score)
    ELSE MatchSkipsMismatchFrom(data, config, i + 1, score + 1)

MatchSkipsMismatch(data, config) == MatchSkipsMismatchFrom(data, config, 1, 0)

Match(data, config) == MatchFrom(data, config, 1, 0)

\* DeviceMatchingInfo.best_match: <<index of the best config or 0, its score>>
RECURSIVE BestMatchFrom(_, _, _, _, _)
BestMatchFrom(data, cfgs, i, best, best_score) ==
    IF i > Len(cfgs) THEN <<best, best_score>>
    ELSE IF Match(data, cfgs[i]) > best_score
    THEN BestMatchFrom(data, cfgs, i + 1, i, Match(data, cfgs[i]))
    ELSE BestMatchFrom(data, cfgs, i + 1, best, best_score)

\* A plausible slip: score >= best_score, so the latest of equal scores wins.
RECURSIVE BestMatchLatestFrom(_, _, _, _, _)
BestMatchLatestFrom(data, cfgs, i, best, best_score) ==
    IF i > Len(cfgs) THEN <<best, best_score>>
    ELSE IF Match(data, cfgs[i]) >= best_score /\ Match(data, cfgs[i]) >= 0
    THEN BestMatchLatestFrom(data, cfgs, i + 1, i, Match(data, cfgs[i]))
    ELSE BestMatchLatestFrom(data, cfgs, i + 1, best, best_score)

BestMatchLatest(data, cfgs) == BestMatchLatestFrom(data, cfgs, 1, 0, -1)

BestMatch(data, cfgs) == BestMatchFrom(data, cfgs, 1, 0, -1)

\* ------------------------------------------------------------ update_loop

\* How the power1_cap override of one device goes (lines 157-169 and 144-155).
SetupOutcomes == {"ok", "rd_fail", "wr_fail", "wr_fail_mask_fail"}

\* config.power_cap of the section update_loop matches to device d (None
\* when no section matches)
CapOf(cfgs, d) ==
    LET best == BestMatch(DeviceData(d), cfgs)[1]
    IN  IF best = 0 THEN Nothing ELSE cfgs[best].power_cap

\* A plausible slip: the power_cap block is indented under
\* `if config.fan_control:`.
RECURSIVE SetupCapNeedsFanFrom(_, _, _, _, _, _)
SetupCapNeedsFanFrom(cfgs, i, fans, prev, fs, io) ==
    IF i > NumDevices
    THEN [fans |-> fans, prev |-> prev, files |-> fs, raised |-> FALSE]
    ELSE LET best == BestMatch(DeviceData(i), cfgs)[1]
         IN  IF best = 0
             THEN SetupCapNeedsFanFrom(cfgs, i + 1, fans, prev, fs, io)
             ELSE LET config == cfgs[best]
                      fans2 == IF config.fan_control
                               THEN Append(fans, FanControllerInit(i, config, HwmonAttrs))
                               ELSE fans
                      r == IF IsNone(config.power_cap) \/ ~config.fan_control
                           THEN [prev |-> prev, files |-> fs, raised |-> FALSE]
                           ELSE SetItem(prev, fs, <<i, "power1_cap">>,
                                        Get(config.power_cap),
                                        io[i] # "rd_fail",
                                        io[i] \notin {"wr_fail", "wr_fail_mask_fail"},
                                        io[i] # "wr_fail_mask_fail")
                  IN  IF r.raised
                      THEN [fans |-> fans2, prev |-> r.prev, files |-> r.files,
                            raised |-> TRUE]
                      ELSE SetupCapNeedsFanFrom(cfgs, i + 1, fans2, r.prev, r.files, io)

\* update_loop, lines 217-243, from the i-th device on: match, construct
\* the controller, apply the power cap. A raise leaves the loop at once.
RECURSIVE SetupFrom(_, _, _, _, _, _)
SetupFrom(cfgs, i, fans, prev, fs, io) ==
    IF i > NumDevices
    THEN [fans |-> fans, prev |-> prev, files |-> fs, raised |-> FALSE]
    ELSE LET best == BestMatch(DeviceData(i), cfgs)[1]
         IN  IF best = 0
             THEN SetupFrom(cfgs, i + 1, fans, prev, fs, io)
             ELSE LET config == cfgs[best]
                      fans2 == IF config.fan_control
                               THEN Append(fans, FanControllerInit(i, config, HwmonAttrs))
                               ELSE fans
                      r == IF IsNone(config.power_cap)
                           THEN [prev |-> prev, files |-> fs, raised |-> FALSE]
                           ELSE SetItem(prev, fs, <<i, "power1_cap">>,
                                        Get(config.power_cap),
                                        io[i] # "rd_fail",
                                        io[i] \notin {"wr_fail", "wr_fail_mask_fail"},
                                        io[i] # "wr_fail_mask_fail")
                  IN  IF r.raised
                      THEN [fans |-> fans2, prev |-> r.prev, files |-> r.files,
                            raised |-> TRUE]
                      ELSE SetupFrom(cfgs, i + 1, fans2, r.prev, r.files, io)

\* temp1_input samples of the daemon specification: a cold and a hot card.
DaemonSensorValues == {39000, 90000}

\* What one fan.update() can do, over the sensor readings and I/O failures.
FanOutcomes(fan, fs) ==
    {FanUpdate(fan, fs, reads, fail) :
        reads \in TickReads(fan, DaemonSensorValues), fail \in FailPoints}

\* A plausible slip: the except clause is outside the for loop, so the first
\* failing fan.update() ends the period's loop.
RECURSIVE TickAllStopsFrom(_, _, _)
TickAllStopsFrom(fans, fs, i) ==
    IF i > Len(fans)
    THEN {[fans |-> <<>>, files |-> fs, log |-> <<>>]}
    ELSE UNION {
            IF o.raised
            THEN {[fans |-> <<o.fan>> \o SubSeq(fans, i + 1, Len(fans)),
                   files |-> o.files,
                   log |-> <<[dev |-> fans[i].dev, raised |-> TRUE]>>]}
            ELSE {[fans |-> <<o.fan>> \o rest.fans, files |-> rest.files,
                   log |-> <<[dev |-> fans[i].dev, raised |-> FALSE]>> \o rest.log] :
                    rest \in TickAllStopsFrom(fans, o.files, i + 1)} :
            o \in FanOutcomes(fans[i], fs)}

\* update_loop, lines 250-254: every controller is updated in list order, a
\* raise is logged and the loop goes on.
RECURSIVE TickAllFrom(_, _, _)
TickAllFrom(fans, fs, i) ==
    IF i > Len(fans)
    THEN {[fans |-> <<>>, files |-> fs, log |-> <<>>]}
    ELSE UNION {
            {[fans |-> <<o.fan>> \o rest.fans, files |-> rest.files,
              log |-> <<[dev |-> fans[i].dev, raised |-> o.raised]>> \o rest.log] :
                rest \in TickAllFrom(fans, o.files, i + 1)} :
            o \in FanOutcomes(fans[i], fs)}

\* A plausible slip: the except clause is outside the for loop, so the first
\* failing restore_pwm_enable ends the loop.
RECURSIVE RestoreFansStopsFrom(_, _, _, _)
RestoreFansStopsFrom(fans, fs, failed, i) ==
    IF i > Len(fans)
    THEN [files |-> fs, log |-> <<>>]
    ELSE LET path == <<fans[i].dev, "pwm1_enable">>
             r == RestorePwmEnable(fans[i], fs, path \notin failed)
             entry == [op |-> "restore_pwm_enable", key |-> path,
                       value |-> fans[i].prev_pwm_enable,
                       wrote |-> r.wrote, ok |-> ~r.raised]
         IN  IF r.raised
             THEN [files |-> r.files, log |-> <<entry>>]
             ELSE LET rest == RestoreFansStopsFrom(fans, r.files, failed, i + 1)
                  IN  [files |-> rest.files, log |-> <<entry>> \o rest.log]

\* update_loop, lines 259-263: restore_pwm_enable for every controller, each
\* in its own try; `failed` are the paths whose write fails.
RECURSIVE RestoreFansFrom(_, _, _, _)
RestoreFansFrom(fans, fs, failed, i) ==
    IF i > Len(fans)
    THEN [files |-> fs, log |-> <<>>]
    ELSE LET path == <<fans[i].dev, "pwm1_enable">>
             r == RestorePwmEnable(fans[i], fs, path \notin failed)
             entry == [op |-> "restore_pwm_enable", key |-> path,
                       value |-> fans[i].prev_pwm_enable,
                       wrote |-> r.wrote, ok |-> ~r.raised]
             rest == RestoreFansFrom(fans, r.files, failed, i + 1)
         IN  [files |-> rest.files, log |-> <<entry>> \o rest.log]

\* update_loop's finally block, lines 258-268
Finally(fans, prev, fs, failed) ==
    LET a == RestoreFansFrom(fans, fs, failed, 1)
        b == Rollback(prev, a.files, failed)
    IN  [files |-> b.files, log |-> a.log \o b.log]

\* ------------------------------------------------------------- main_async
\* The event loop runs one callback at a time: a step of main_task, a step of
\* update_loop_task, the PrepareForSleep signal handler or the SIGINT/SIGTERM
\* handler. A task step runs from one await to the next.
\*
\* update_task: "none" (update_loop_task is None), "created" (scheduled, the
\* body not yet entered), "sleeping" (in asyncio.sleep(1)), "parked" (awaiting
\* the never-completed future of line 256), "cancelled" (ended by
\* CancelledError through the finally block), "cancelled_early" (cancelled
\* before the body was entered) and "failed" (ended by another exception).
\* main_pc: "init" (about to enter the loop of line 307), "wait_wake" (in
\* wake_event.wait()), "await_update" (line 313), "exited" (ended by
\* CancelledError: main() returns), "crashed" (ended by another exception).

Live == {"created", "sleeping", "parked"}
Done == {"cancelled", "cancelled_early", "failed"}
Alive == main_pc \in {"init", "wait_wake", "await_update"}

\* the configuration files the daemon is started with
CapSample == [power_cap |-> 150]

\* config.values() of line 400 begins with configparser's DEFAULT section,
\* which names no device and so matches every device with score 0.
SectionDefault == DefaultConfig
SectionFirst ==
    [DefaultConfig EXCEPT !.name = "first", !.pci_slot_name = Some(SlotNames[1]),
                          !.fan_control = TRUE, !.fan_semi_passive = TRUE,
                          !.power_cap = Some(CapSample.power_cap)]
SectionSecond ==
    [DefaultConfig EXCEPT !.name = "second", !.pci_slot_name = Some(SlotNames[2]),
                          !.power_cap = Some(CapSample.power_cap)]
SectionSecondFan ==
    [SectionSecond EXCEPT !.name = "second-fan", !.fan_control = TRUE]

\* The first card with fan control and a power cap and the second with a
\* power cap only; or no card with fan control.
ConfigFiles ==
    {<<SectionDefault, SectionFirst, SectionSecond>>, <<SectionDefault, SectionSecond>>}

Init ==
    /\ files \in InitFiles
    /\ orig_files = files
    /\ unplugged = {}
    /\ prev_values = <<>>
    /\ set_count = [p \in Paths |-> 0]
    /\ fan_controllers = <<>>
    /\ configs \in ConfigFiles
    /\ wake_event = TRUE
    /\ update_task = "none"
    /\ update_cancel = FALSE
    /\ main_pc = "init"
    /\ main_waiter = "none"
    /\ main_must_cancel = FALSE
    /\ restore_count = 0
    /\ cancel_requests = 0
    /\ sleep_pending = FALSE
    /\ awaiting_restart = FALSE
    /\ sig_seen = FALSE
    /\ last = [op |-> "init"]

\* A plausible slip: the sleep event clears wake_event but does not cancel
\* the running update loop.
PrepareForSleepNoCancel(sleep) ==
    /\ Alive
    /\ wake_event' = ~sleep
    /\ main_waiter' = IF ~sleep /\ main_waiter = "pending" THEN "set" ELSE main_waiter
    /\ sleep_pending' = IF sleep THEN (sleep_pending \/ update_task \in Live) ELSE FALSE
    /\ awaiting_restart' = IF sleep THEN FALSE ELSE (awaiting_restart \/ ~wake_event)
    /\ last' = [op |-> IF sleep THEN "sleep" ELSE "wake"]
    /\ UNCHANGED <<files, orig_files, unplugged, set_count, cycleVars, configs, update_task,
                   update_cancel, main_pc, main_must_cancel, restore_count,
                   cancel_requests, sig_seen>>

\* prepare_for_sleep(sleep), lines 279-287. Task.cancel() on a task that is
\* done does nothing; Event.set() completes the pending waiter.
PrepareForSleep(sleep) ==
    /\ Alive
    /\ wake_event' = ~sleep
    /\ update_cancel' = IF sleep /\ update_task \in Live THEN TRUE ELSE update_cancel
    /\ main_waiter' = IF ~sleep /\ main_waiter = "pending" THEN "set" ELSE main_waiter
    /\ sleep_pending' = IF sleep THEN (sleep_pending \/ update_task \in Live) ELSE FALSE
    /\ awaiting_restart' = IF sleep THEN FALSE ELSE (awaiting_restart \/ ~wake_event)
    /\ cancel_requests' = IF sleep /\ update_task \in Live
                          THEN Many(cancel_requests) ELSE cancel_requests
    /\ last' = [op |-> IF sleep THEN "sleep" ELSE "wake"]
    /\ UNCHANGED <<files, orig_files, unplugged, set_count, cycleVars, configs, update_task,
                   main_pc, main_must_cancel, restore_count, sig_seen>>

\* main_task.cancel(), the SIGINT/SIGTERM handler of lines 407-408:
\* Task.cancel() cancels the future the task awaits, and sets _must_cancel
\* only when that future would not be cancelled (it is done already).
Signal ==
    /\ Alive
    /\ sig_seen' = TRUE
    /\ update_cancel' = IF main_pc = "await_update" /\ update_task \in Live
                        THEN TRUE ELSE update_cancel
    /\ main_waiter' = IF main_pc = "wait_wake" /\ main_waiter = "pending"
                      THEN "cancelled" ELSE main_waiter
    /\ main_must_cancel' =
            IF \/ main_pc = "init"
               \/ main_pc = "await_update" /\ update_task \notin Live
               \/ main_pc = "wait_wake" /\ main_waiter # "pending"
            THEN TRUE ELSE main_must_cancel
    /\ cancel_requests' = IF main_pc = "await_update" /\ update_task \in Live
                          THEN Many(cancel_requests) ELSE cancel_requests
    /\ last' = [op |-> "signal"]
    /\ UNCHANGED <<files, orig_files, unplugged, set_count, cycleVars, configs, wake_event,
                   update_task, main_pc, restore_count, sleep_pending,
                   awaiting_restart>>

\* main_async ends by CancelledError; main() swallows it and returns.
MainExit ==
    /\ main_pc' = "exited"
    /\ main_waiter' = "none"
    /\ main_must_cancel' = FALSE
    /\ last' = [op |-> "exit"]
    /\ UNCHANGED <<wake_event, update_task, update_cancel, awaiting_restart, restore_count,
                   cancel_requests>>

\* Lines 307-313 from the top of the loop: wake_event.wait() returns at once
\* when the event is set, and the new task is created and awaited in the
\* same step; otherwise the step ends in wake_event.wait().
StartCycle ==
    /\ update_task' = "created"
    /\ update_cancel' = FALSE
    /\ main_pc' = "await_update"
    /\ main_waiter' = "none"
    /\ main_must_cancel' = FALSE
    /\ awaiting_restart' = FALSE
    /\ restore_count' = 0
    /\ cancel_requests' = 0
    /\ last' = [op |-> "start"]
    /\ UNCHANGED wake_event

LoopTop ==
    IF wake_event
    THEN StartCycle
    ELSE /\ main_pc' = "wait_wake"
         /\ main_waiter' = "pending"
         /\ main_must_cancel' = FALSE
         /\ last' = [op |-> "wait"]
         /\ UNCHANGED <<wake_event, update_task, update_cancel, awaiting_restart,
                        restore_count, cancel_requests>>

\* A plausible slip: main_async goes on as soon as the cancellation of
\* update_loop_task has been requested, without awaiting the task's end.
MainStepAbandonsTask ==
    /\ \/ /\ main_pc = "init"
          /\ IF main_must_cancel THEN MainExit ELSE LoopTop
       \/ /\ main_pc = "wait_wake"
          /\ main_waiter \in {"set", "cancelled"}
          \* Event.wait() does not look at the flag again once its future is done
          /\ IF main_waiter = "cancelled" \/ main_must_cancel THEN MainExit ELSE StartCycle
       \/ /\ main_pc = "await_update"
          /\ (update_task \in Done \/ update_cancel)
          /\ IF update_task = "failed" /\ ~main_must_cancel
             THEN /\ main_pc' = "crashed"
                  /\ last' = [op |-> "crash"]
                  /\ UNCHANGED <<wake_event, update_task, update_cancel, main_waiter,
                                 main_must_cancel, awaiting_restart, restore_count,
                                 cancel_requests>>
             \* except asyncio.CancelledError: the task's own cancellation and
             \* main_task's arrive as the same exception
             ELSE IF wake_event THEN MainExit ELSE LoopTop
    /\ UNCHANGED <<files, orig_files, unplugged, set_count, cycleVars, configs, sleep_pending,
                   sig_seen>>


\* One step of main_task, lines 307-317.
MainStep ==
    /\ \/ /\ main_pc = "init"
          /\ IF main_must_cancel THEN MainExit ELSE LoopTop
       \/ /\ main_pc = "wait_wake"
          /\ main_waiter \in {"set", "cancelled"}
          \* Event.wait() does not look at the flag again once its future is done
          /\ IF main_waiter = "cancelled" \/ main_must_cancel THEN MainExit ELSE StartCycle
       \/ /\ main_pc = "await_update"
          /\ update_task \in Done
          /\ IF update_task = "failed" /\ ~main_must_cancel
             THEN /\ main_pc' = "crashed"
                  /\ last' = [op |-> "crash"]
                  /\ UNCHANGED <<wake_event, update_task, update_cancel, main_waiter,
                                 main_must_cancel, awaiting_restart, restore_count,
                                 cancel_requests>>
             \* except asyncio.CancelledError: the task's own cancellation and
             \* main_task's arrive as the same exception
             ELSE IF wake_event THEN MainExit ELSE LoopTop
    /\ UNCHANGED <<files, orig_files, unplugged, set_count, cycleVars, configs, sleep_pending,
                   sig_seen>>

\* The first step of update_loop_task: lines 217-248, up to the first await.
UpdateStart ==
    /\ update_task = "created"
    /\ ~update_cancel
    /\ \E io \in [Devices -> SetupOutcomes] :
        LET r == SetupFrom(configs, 1, <<>>, <<>>, files, io)
        IN  /\ files' = r.files
            /\ IF r.raised
               THEN /\ update_task' = "failed"
                    /\ fan_controllers' = <<>>
                    /\ prev_values' = <<>>
               ELSE /\ update_task' = IF r.fans = <<>> THEN "parked" ELSE "sleeping"
                    /\ fan_controllers' = r.fans
                    /\ prev_values' = r.prev
            /\ last' = [op |-> "setup", raised |-> r.raised,
                        io |-> [d \in Devices |->
                                    IF IsNone(CapOf(configs, d)) THEN "none" ELSE io[d]]]
    /\ UNCHANGED <<orig_files, unplugged, set_count, configs, wake_event, update_cancel, main_pc,
                   main_waiter, main_must_cancel, histVars>>

\* A task cancelled before its first step: CancelledError is thrown into the
\* coroutine before any of its code has run.
UpdateCancelledEarly ==
    /\ update_task = "created"
    /\ update_cancel
    /\ update_task' = "cancelled_early"
    /\ update_cancel' = FALSE
    /\ last' = [op |-> "unstarted"]
    /\ UNCHANGED <<files, orig_files, unplugged, set_count, cycleVars, configs, wake_event, main_pc,
                   main_waiter, main_must_cancel, histVars>>

\* asyncio.sleep(1) returns: lines 250-254, then the next sleep.
UpdateTick ==
    /\ update_task = "sleeping"
    /\ ~update_cancel
    /\ \E o \in TickAllFrom(fan_controllers, files, 1) :
        \* every I/O on the files of an unplugged device fails
        /\ \A i \in 1..Len(fan_controllers) :
                fan_controllers[i].dev \in unplugged =>
                    /\ o.log[i].raised
                    /\ o.fans[i] = fan_controllers[i]
                    /\ \A f \in FileNames : o.files[<<fan_controllers[i].dev, f>>]
                                                = files[<<fan_controllers[i].dev, f>>]
        /\ files' = o.files
        /\ fan_controllers' = o.fans
        /\ last' = [op |-> "tick", log |-> o.log]
    /\ UNCHANGED <<orig_files, unplugged, set_count, prev_values, daemonVars>>

\* A plausible slip: the cancellation is caught inside the while loop, the
\* restoration runs and the loop goes on until it is cancelled again.
UpdateFinallyStaysLive ==
    /\ update_task \in {"sleeping", "parked"}
    /\ update_cancel
    /\ \E failed \in SUBSET ({<<fan_controllers[i].dev, "pwm1_enable">> :
                                i \in 1..Len(fan_controllers)} \cup Keys(prev_values)) :
        LET r == Finally(fan_controllers, prev_values, files, failed)
        IN  \* every write to a file of an unplugged device fails
            /\ \A i \in 1..Len(fan_controllers) :
                    fan_controllers[i].dev \in unplugged =>
                        <<fan_controllers[i].dev, "pwm1_enable">> \in failed
            /\ \A k \in Keys(prev_values) : k[1] \in unplugged => k \in failed
            /\ files' = r.files
            /\ last' = [op |-> "restore",
                        fans |-> [i \in 1..Len(fan_controllers) |-> fan_controllers[i].dev],
                        keys |-> [i \in 1..Len(prev_values) |-> prev_values[i].key],
                        log |-> r.log]
    /\ restore_count' = Many(restore_count)
    /\ UNCHANGED <<orig_files, unplugged, set_count, cycleVars, configs, wake_event, update_task,
                   update_cancel, main_pc, main_waiter, main_must_cancel, cancel_requests,
                   sleep_pending, awaiting_restart, sig_seen>>

\* CancelledError is raised at the await of line 248 or 256: the finally
\* block of lines 258-268 runs and the task ends cancelled. The
\* controllers and the ledger die with the coroutine.
UpdateFinally ==
    /\ update_task \in {"sleeping", "parked"}
    /\ update_cancel
    /\ \E failed \in SUBSET ({<<fan_controllers[i].dev, "pwm1_enable">> :
                                i \in 1..Len(fan_controllers)} \cup Keys(prev_values)) :
        LET r == Finally(fan_controllers, prev_values, files, failed)
        IN  \* every write to a file of an unplugged device fails
            /\ \A i \in 1..Len(fan_controllers) :
                    fan_controllers[i].dev \in unplugged =>
                        <<fan_controllers[i].dev, "pwm1_enable">> \in failed
            /\ \A k \in Keys(prev_values) : k[1] \in unplugged => k \in failed
            /\ files' = r.files
            /\ last' = [op |-> "restore",
                        fans |-> [i \in 1..Len(fan_controllers) |-> fan_controllers[i].dev],
                        keys |-> [i \in 1..Len(prev_values) |-> prev_values[i].key],
                        log |-> r.log]
    /\ update_task' = "cancelled"
    /\ update_cancel' = FALSE
    /\ fan_controllers' = <<>>
    /\ prev_values' = <<>>
    /\ restore_count' = Many(restore_count)
    /\ UNCHANGED <<orig_files, unplugged, set_count, configs, wake_event, main_pc, main_waiter,
                   main_must_cancel, cancel_requests, sleep_pending, awaiting_restart,
                   sig_seen>>

UpdateStep == UpdateStart \/ UpdateCancelledEarly \/ UpdateTick \/ UpdateFinally

Next ==
    \/ \E sleep \in BOOLEAN : PrepareForSleep(sleep)
    \/ Signal
    \/ MainStep
    \/ UpdateStep

Spec == Init /\ [][Next]_vars

\* --------------------------------------- CycleSpec: one update_loop task
\* One update cycle on its own: the task is created over two cards with fan
\* control and a power cap (or over one power cap only), it ticks, and
\* update_loop_task.cancel() is called at any moment, any number of times.

CycleConfigFiles ==
    {<<SectionDefault, SectionFirst, SectionSecondFan>>, <<SectionDefault, SectionSecond>>}

CycleInit ==
    /\ files \in InitFiles
    /\ orig_files = files
    /\ unplugged = {}
    /\ prev_values = <<>>
    /\ set_count = [p \in Paths |-> 0]
    /\ fan_controllers = <<>>
    /\ configs \in CycleConfigFiles
    /\ wake_event = TRUE
    /\ update_task = "created"
    /\ update_cancel = FALSE
    /\ main_pc = "none"
    /\ main_waiter = "none"
    /\ main_must_cancel = FALSE
    /\ restore_count = 0
    /\ cancel_requests = 0
    /\ sleep_pending = FALSE
    /\ awaiting_restart = FALSE
    /\ sig_seen = FALSE
    /\ last = [op |-> "start"]

\* update_loop_task.cancel() of line 284 on a task that is not done
CycleCancel ==
    /\ update_task \in Live
    /\ update_cancel' = TRUE
    /\ cancel_requests' = Many(cancel_requests)
    /\ last' = [op |-> "cancel"]
    /\ UNCHANGED <<files, orig_files, unplugged, set_count, cycleVars, configs, wake_event,
                   update_task, main_pc, main_waiter, main_must_cancel, restore_count,
                   sleep_pending, awaiting_restart, sig_seen>>

CycleNext == CycleCancel \/ UpdateStep

CycleSpec == CycleInit /\ [][CycleNext]_vars

\* ------------------------------------------------ the cycle's restoration

\* C1: when an update cycle is cancelled, restore_pwm_enable is attempted for
\* every controller of the cycle, in list order, and then the rollback write
\* is attempted for every recorded ledger path, in recording order, whichever
\* of these attempts fail.
RestoresEveryControllerThenLedger ==
    last.op = "restore" =>
        /\ Len(last.log) = Len(last.fans) + Len(last.keys)
        /\ \A i \in 1..Len(last.fans) :
            /\ last.log[i].op = "restore_pwm_enable"
            /\ last.log[i].key = <<last.fans[i], "pwm1_enable">>
        /\ \A i \in 1..Len(last.keys) :
            /\ last.log[Len(last.fans) + i].op = "rollback"
            /\ last.log[Len(last.fans) + i].key = last.keys[i]

\* Witness of C1: the first controller's restoring write and the first
\* ledger path's rollback write both fail, and a second controller and a
\* second ledger path are still attempted after them.
RestoreFailureWitness ==
    /\ last.op = "restore"
    /\ Len(last.fans) >= 2
    /\ Len(last.keys) >= 2
    /\ ~last.log[1].ok
    /\ last.log[2].op = "restore_pwm_enable" /\ last.log[2].wrote
    /\ ~last.log[Len(last.fans) + 1].ok
    /\ last.log[Len(last.fans) + 2].op = "rollback"

\* C5 as stated: after a cycle ended by cancellation with every restoration
\* write successful, every hardware file holds the value it had before the
\* cycle (the cycle of CycleSpec starts from orig_files).
RestoredToPreCycleValues ==
    (last.op = "restore" /\ \A i \in DOMAIN last.log : last.log[i].ok)
        => files = orig_files

\* C4 as stated: every value a rollback writes to a path is the value the
\* path held before the daemon started.
RollbackWritesPreDaemonValue ==
    last.op = "restore" =>
        \A i \in DOMAIN last.log :
            last.log[i].op = "rollback" => last.log[i].value = orig_files[last.log[i].key]

\* ---------------------------------------------------------- sleep and wake

\* C6: from a sleep event that hits a running cycle until the next wake
\* event, the cycle's cancellation stays pending until its task has ended (so
\* the task's next step is the restoration, not a tick), and no tick, no setup
\* and no new cycle happens.
NoTickWhileAsleep ==
    sleep_pending =>
        /\ last.op \notin {"tick", "setup", "start"}
        /\ update_task \in Live => update_cancel

\* Witness of C6: the cancelled cycle has restored and ended, the main loop
\* has observed it and waits for the wake event instead of restarting.
AsleepWitness ==
    /\ sleep_pending
    /\ update_task = "cancelled"
    /\ restore_count = 1
    /\ main_pc = "wait_wake"
    /\ last.op = "wait"

\* C7 as stated, its safety part: while a wake event that followed a sleep
\* event still waits for its fresh cycle, and no termination was requested,
\* the main task has not ended.
WakeRestartsCycle ==
    (awaiting_restart /\ ~sig_seen) => main_pc # "exited"

\* C8 as stated, its safety part: once a termination signal was delivered the
\* main task is never parked in wake_event.wait() with no cancellation
\* pending.
SignalNeverSwallowed ==
    sig_seen => ~(main_pc = "wait_wake" /\ main_waiter = "pending")

\* C9 as stated: a cycle ended by cancellation has run its restoration path
\* exactly once, and a sleep event or signal that finds no cycle running
\* changes neither the files nor the cycle.
RestoresExactlyOnce ==
    /\ [](update_task \in {"cancelled", "cancelled_early"} => restore_count = 1)
    /\ [][(last'.op \in {"sleep", "signal"} /\ update_task \notin Live)
            => UNCHANGED <<files, cycleVars, update_task, update_cancel, restore_count>>]_vars

\* C9, amended: a cycle whose body was entered and that ended by cancellation
\* has run its restoration path exactly once, however many cancel() calls it
\* received; a cycle cancelled before its first step has run neither the
\* setup nor the restoration path; the restoration path never runs twice; a
\* sleep event or signal that finds no cycle running changes neither the
\* files nor the cycle.
RestoresOncePerEnteredCycle ==
    /\ [](update_task = "cancelled" => restore_count = 1)
    /\ [](update_task = "cancelled_early" =>
            restore_count = 0 /\ fan_controllers = <<>> /\ prev_values = <<>>)
    /\ [](restore_count <= 1)
    /\ [][(last'.op \in {"sleep", "signal"} /\ update_task \notin Live)
            => UNCHANGED <<files, cycleVars, update_task, update_cancel, restore_count>>]_vars

\* Witness of C9: a cycle that received more than one cancel() call has
\* ended after one run of the restoration path.
RestoredOnceWitness ==
    /\ update_task = "cancelled"
    /\ restore_count = 1
    /\ cancel_requests = 2
    /\ last.op = "restore"

\* ------------------------------------- CurveSpec: the response curve
\* One controller without semi-passive mode, constructed from any parameter
\* set of CurveConfigs (valid or not) and ticked at any sampled temperature
\* with no I/O failure.

\* temp1_input samples: below every temp_min, at the curve's ends and
\* quarter points, and above every temp_max.
CurveTemps == {30000, 40000, 52500, 65000, 77500, 90000, 95000}

CurveConfigs ==
    {[DefaultConfig EXCEPT !.fan_control = TRUE,
                           !.fan_pwm_min = Some(a), !.fan_pwm_max = Some(b),
                           !.temp_min = c, !.temp_max = Some(d),
                           !.fan_curve_pow = p] :
        a \in {0, 64}, b \in {0, 64, 255}, c \in {40, 65}, d \in {40, 90},
        p \in 0..MaxPow}

CurveInit ==
    /\ files \in {f \in InitFiles :
                    \A d \in Devices \ {1} : f[<<d, "pwm1_enable">>] = Hwmon.pwm1_enable_auto}
    /\ orig_files = files
    /\ unplugged = {}
    /\ prev_values = <<>>
    /\ set_count = [p \in Paths |-> 0]
    /\ \E config \in CurveConfigs :
            fan_controllers = <<FanControllerInit(1, config, HwmonAttrs)>>
    /\ NoDaemon
    /\ last = [op |-> "init"]

\* fan.update() at temperature t; the record keeps the previous tick's
\* temperature and written value next to this tick's.
CurveTick ==
    \E t \in CurveTemps :
        LET r == FanUpdate(fan_controllers[1], files, <<t, t, t>>, "none")
        IN  /\ files' = r.files
            /\ fan_controllers' = <<r.fan>>
            /\ last' = [op |-> "tick", temp |-> t, pwm |-> r.pwm, raised |-> r.raised,
                        prev_temp |-> IF last.op = "tick" THEN Some(last.temp) ELSE Nothing,
                        prev_pwm |-> IF last.op = "tick" THEN last.pwm ELSE Nothing]
            /\ UNCHANGED <<orig_files, unplugged, prev_values, set_count, daemonVars>>

CurveNext == CurveTick

CurveSpec == CurveInit /\ [][CurveNext]_vars

\* C11 as stated: for temp_max > temp_min, pwm_max > pwm_min and any
\* curve_pow >= 0, the written value does not decrease when the temperature
\* does not, is pwm_min at temp_min and pwm_max at temp_max.
CurveMonotoneAnyPow ==
    (/\ last.op = "tick"
     /\ fan_controllers[1].temp_delta > 0
     /\ fan_controllers[1].pwm_delta > 0) =>
        /\ ~IsNone(last.pwm)
        /\ (~IsNone(last.prev_pwm) /\ Get(last.prev_temp) <= last.temp)
                => Get(last.prev_pwm) <= Get(last.pwm)
        /\ last.temp = fan_controllers[1].temp_max
                => Get(last.pwm) = fan_controllers[1].pwm_max
        /\ last.temp = fan_controllers[1].temp_min
                => Get(last.pwm) = fan_controllers[1].pwm_min

\* C11, amended: the same, except that the value written at temp_min is
\* pwm_min only for curve_pow > 0; with curve_pow = 0 it is pwm_max.
CurveMonotoneWithEndpoints ==
    (/\ last.op = "tick"
     /\ fan_controllers[1].temp_delta > 0
     /\ fan_controllers[1].pwm_delta > 0) =>
        /\ ~IsNone(last.pwm)
        /\ (~IsNone(last.prev_pwm) /\ Get(last.prev_temp) <= last.temp)
                => Get(last.prev_pwm) <= Get(last.pwm)
        /\ last.temp = fan_controllers[1].temp_max
                => Get(last.pwm) = fan_controllers[1].pwm_max
        /\ last.temp = fan_controllers[1].temp_min
                => Get(last.pwm) = IF fan_controllers[1].curve_pow = 0
                                   THEN fan_controllers[1].pwm_max
                                   ELSE fan_controllers[1].pwm_min

\* Witness of C11: a tick at temp_min that wrote pwm_min followed by a tick
\* at temp_max that wrote the larger pwm_max.
CurveEndpointsWitness ==
    /\ last.op = "tick"
    /\ fan_controllers[1].temp_delta > 0
    /\ fan_controllers[1].pwm_delta > 0
    /\ fan_controllers[1].curve_pow > 0
    /\ last.prev_temp = Some(fan_controllers[1].temp_min)
    /\ last.prev_pwm = Some(fan_controllers[1].pwm_min)
    /\ last.temp = fan_controllers[1].temp_max
    /\ last.pwm = Some(fan_controllers[1].pwm_max)

\* C12: with temp_max > temp_min, the written value w is the integer
\* truncation of pwm_min + pwm_delta * frac^curve_pow for the clamped
\* fraction frac = n/d (both in units of 2.5 degrees):
\* w * d^p <= pwm_min * d^p + pwm_delta * n^p < (w + 1) * d^p; and the
\* parameter set 40, 90, 0, 255, 2 writes 63 at 65 degrees, 0 below 40 and
\* 255 above 90.
CurveWritesTruncatedValue ==
    (last.op = "tick" /\ fan_controllers[1].temp_delta > 0) =>
        LET fan == fan_controllers[1]
            d == fan.temp_delta \div 2500
            raw == (last.temp - fan.temp_min) \div 2500
            n == IF last.temp <= fan.temp_min THEN 0 ELSE IF raw >= d THEN d ELSE raw
            exact == fan.pwm_min * Pow(d, fan.curve_pow)
                        + (fan.pwm_max - fan.pwm_min) * Pow(n, fan.curve_pow)
        IN  /\ ~IsNone(last.pwm)
            /\ Get(last.pwm) * Pow(d, fan.curve_pow) <= exact
            /\ exact < (Get(last.pwm) + 1) * Pow(d, fan.curve_pow)
            /\ (/\ fan.temp_min = 40000 /\ fan.temp_max = 90000
                /\ fan.pwm_min = 0 /\ fan.pwm_max = 255 /\ fan.curve_pow = 2) =>
                    /\ last.temp = 65000 => last.pwm = Some(63)
                    /\ last.temp < 40000 => last.pwm = Some(0)
                    /\ last.temp > 90000 => last.pwm = Some(255)

\* Witness of C12: the parameter set 40, 90, 0, 255, 2 at 65 degrees wrote 63.
CurveExampleWitness ==
    /\ last.op = "tick"
    /\ fan_controllers[1].temp_min = 40000 /\ fan_controllers[1].temp_max = 90000
    /\ fan_controllers[1].pwm_min = 0 /\ fan_controllers[1].pwm_max = 255
    /\ fan_controllers[1].curve_pow = 2
    /\ last.temp = 65000
    /\ last.pwm = Some(63)
    /\ files[<<1, "pwm1">>] = 63

\* C19 as stated: with curve_pow = 0 and valid bounds a tick writes pwm_min
\* below temp_min and pwm_max at or above it.
CurvePowZeroIsStep ==
    (/\ last.op = "tick"
     /\ fan_controllers[1].temp_delta > 0
     /\ fan_controllers[1].pwm_delta > 0
     /\ fan_controllers[1].curve_pow = 0) =>
        last.pwm = IF last.temp < fan_controllers[1].temp_min
                   THEN Some(fan_controllers[1].pwm_min)
                   ELSE Some(fan_controllers[1].pwm_max)

\* C15 as stated: no controller with temp_max <= temp_min or
\* pwm_max <= pwm_min reaches a tick, and no tick divides by zero.
InvalidControllerNeverTicks ==
    last.op = "tick" =>
        /\ fan_controllers[1].temp_delta > 0
        /\ fan_controllers[1].pwm_delta > 0
        /\ ~last.raised

\* ------------------------------------- MatchSpec: DeviceMatchingInfo
\* best_match applied to any device of MatchData and any candidate list of
\* at most MaxCandidates sections, and update_loop's setup run over the
\* machine's devices with that list.

\* the first card, the second card, and a card without a vbios_version
\* attribute (device.attributes.get returns None)
MatchData ==
    {DeviceData(1), DeviceData(2), [DeviceData(1) EXCEPT !.vbios_version = Nothing]}

\* Candidate sections: no key; the first slot; the first slot and the pci_id;
\* the first slot and another pci_id; the vbios_version; the second slot.
MatchSections ==
    LET managed == [DefaultConfig EXCEPT !.fan_control = TRUE,
                                         !.power_cap = Some(CapSample.power_cap)]
    IN  {[managed EXCEPT !.name = "empty"],
         [managed EXCEPT !.name = "slot1", !.pci_slot_name = Some(SlotNames[1])],
         [managed EXCEPT !.name = "slot1-id", !.pci_slot_name = Some(SlotNames[1]),
                         !.pci_id = DeviceData(1).pci_id],
         [managed EXCEPT !.name = "slot1-other-id", !.pci_slot_name = Some(SlotNames[1]),
                         !.pci_id = Some("1002:731F")],
         [managed EXCEPT !.name = "vbios", !.vbios_version = DeviceData(1).vbios_version],
         [managed EXCEPT !.name = "slot2", !.pci_slot_name = Some(SlotNames[2])]}

CandidateLists ==
    UNION {[1..n -> MatchSections] : n \in 0..MaxCandidates}

MatchInit ==
    /\ files \in {f \in InitFiles :
                    \A d \in Devices : f[<<d, "pwm1_enable">>] = Hwmon.pwm1_enable_auto}
    /\ orig_files = files
    /\ unplugged = {}
    /\ prev_values = <<>>
    /\ set_count = [p \in Paths |-> 0]
    /\ fan_controllers = <<>>
    /\ configs \in CandidateLists
    /\ wake_event = TRUE
    /\ update_task = "none"
    /\ update_cancel = FALSE
    /\ main_pc = "none"
    /\ main_waiter = "none"
    /\ main_must_cancel = FALSE
    /\ restore_count = 0
    /\ cancel_requests = 0
    /\ sleep_pending = FALSE
    /\ awaiting_restart = FALSE
    /\ sig_seen = FALSE
    /\ last = [op |-> "init"]

\* device_info.best_match(configs), with every candidate's match score
MatchProbe ==
    \E data \in MatchData :
        /\ last' = [op |-> "match", data |-> data,
                    scores |-> [i \in 1..Len(configs) |-> Match(data, configs[i])],
                    best |-> BestMatch(data, configs)]
        /\ UNCHANGED <<files, orig_files, unplugged, prev_values, set_count, fan_controllers,
                       daemonVars>>

\* update_loop's setup, lines 217-243, with no I/O failure
MatchSetup ==
    /\ last.op # "setup"
    /\ LET r == SetupFrom(configs, 1, <<>>, <<>>, files, [d \in Devices |-> "ok"])
       IN  /\ files' = r.files
           /\ fan_controllers' = r.fans
           /\ prev_values' = r.prev
           /\ last' = [op |-> "setup", raised |-> r.raised]
    /\ UNCHANGED <<orig_files, unplugged, set_count, daemonVars>>

MatchNext == MatchProbe \/ MatchSetup

MatchSpec == MatchInit /\ [][MatchNext]_vars

\* C13: match returns -1 when any key the candidate specifies differs from
\* the device's value (a missing attribute included), whatever the other
\* keys; otherwise the number of keys the candidate specifies, 0 for a
\* candidate that specifies none.
MatchScoreIsSpecifiedKeys ==
    last.op = "match" =>
        \A i \in 1..Len(configs) :
            LET specified == {k \in {IdKeys[j] : j \in 1..Len(IdKeys)} :
                                ~IsNone(configs[i][k])}
            IN  last.scores[i] =
                    IF \E k \in specified : configs[i][k] # last.data[k]
                    THEN -1
                    ELSE Cardinality(specified)

\* Witness of C13: a candidate with one matching and one differing key scores
\* -1, next to a candidate that specifies no key and scores 0.
MatchMismatchWitness ==
    /\ last.op = "match"
    /\ Len(configs) = 2
    /\ configs[1].pci_slot_name = last.data.pci_slot_name
    /\ ~IsNone(configs[1].pci_id) /\ configs[1].pci_id # last.data.pci_id
    /\ last.scores[1] = -1
    /\ configs[2].name = "empty"
    /\ last.scores[2] = 0

\* C14: best_match returns the earliest candidate among those with the
\* highest non-negative score, and none exactly when every candidate scores
\* -1; after the setup a device with no matching candidate has no controller,
\* no ledger entry and an untouched power1_cap.
BestMatchIsEarliestHighest ==
    /\ last.op = "match" =>
        LET good == {i \in 1..Len(configs) : last.scores[i] >= 0}
        IN  IF good = {}
            THEN last.best[1] = 0
            ELSE /\ last.best[1] \in good
                 /\ last.best[2] = last.scores[last.best[1]]
                 /\ \A i \in good : last.scores[i] <= last.best[2]
                 /\ \A i \in good : last.scores[i] = last.best[2] => last.best[1] <= i
    /\ last.op = "setup" =>
        \A d \in Devices :
            (\A i \in 1..Len(configs) :
                \E k \in {IdKeys[j] : j \in 1..Len(IdKeys)} :
                    ~IsNone(configs[i][k]) /\ configs[i][k] # DeviceData(d)[k])
            => /\ \A i \in 1..Len(fan_controllers) : fan_controllers[i].dev # d
               /\ <<d, "power1_cap">> \notin Keys(prev_values)
               /\ files[<<d, "power1_cap">>] = orig_files[<<d, "power1_cap">>]

\* Witness of C14: the more specific section, declared second, is chosen over
\* the section without keys.
BestMatchSpecificWitness ==
    /\ last.op = "match"
    /\ Len(configs) = 2
    /\ configs[1].name = "empty"
    /\ last.scores = <<0, 1>>
    /\ last.best = <<2, 1>>

\* ------------------------------------------------- failures in the cycle

\* C16: every period ticks every controller of the cycle, in list order,
\* whichever of them raise; the cycle is still running after the period, and
\* the controller list does not change while the cycle runs, so a controller
\* that failed is ticked again in the next period.
TickFailureIsolated ==
    /\ [](last.op = "tick" =>
            /\ update_task = "sleeping"
            /\ Len(last.log) = Len(fan_controllers)
            /\ \A i \in 1..Len(fan_controllers) : last.log[i].dev = fan_controllers[i].dev)
    /\ [][(update_task = "sleeping" /\ update_task' = "sleeping") =>
            /\ Len(fan_controllers') = Len(fan_controllers)
            /\ \A i \in 1..Len(fan_controllers) :
                    fan_controllers'[i].dev = fan_controllers[i].dev]_vars

\* Witness of C16: the first controller's tick raised and the second
\* controller was ticked to its end in the same period.
TickFailureWitness ==
    /\ last.op = "tick"
    /\ Len(last.log) = 2
    /\ last.log[1].raised
    /\ ~last.log[2].raised
    /\ files[<<fan_controllers[2].dev, "pwm1">>] # orig_files[<<fan_controllers[2].dev, "pwm1">>]
    /\ update_task = "sleeping"

\* C17 as stated, its first part: no failure of one device's setup or tick
\* ends the update task by an exception or ends the process by one.
SingleFailureNeverTerminates ==
    /\ update_task # "failed"
    /\ main_pc # "crashed"

\* --------------------------------------- UnplugSpec: hot-unplug in a cycle
\* The cycle of CycleSpec, with cards that can disappear while it runs: from
\* then on every read and write of the card's files fails.

Unplug(d) ==
    /\ update_task = "sleeping"
    /\ d \notin unplugged
    /\ \E i \in 1..Len(fan_controllers) : fan_controllers[i].dev = d
    /\ unplugged' = unplugged \cup {d}
    /\ last' = [op |-> "unplug", dev |-> d]
    /\ UNCHANGED <<files, orig_files, prev_values, set_count, fan_controllers, daemonVars>>

UnplugNext == CycleNext \/ \E d \in Devices : Unplug(d)

UnplugSpec == CycleInit /\ [][UnplugNext]_vars

\* C18 as stated: a controller whose card has disappeared is not ticked
\* again, and no restoring write to its pwm1_enable is attempted when the
\* cycle is cancelled.
UnpluggedControllerDropped ==
    /\ last.op = "tick" =>
            \A i \in 1..Len(last.log) : last.log[i].dev \notin unplugged
    /\ last.op = "restore" =>
            \A i \in 1..Len(last.log) :
                (last.log[i].op = "restore_pwm_enable" /\ last.log[i].key[1] \in unplugged)
                    => ~last.log[i].wrote

\* ------------------------------------------ the manual mode and its snapshot

EnablePath(fan) == <<fan.dev, "pwm1_enable">>

TickUsesSingleSample ==
    (last.op = "tick" /\ ~last.raised) =>
        \E t \in SensorValues :
            LET before == [fan_controllers[1] EXCEPT !.turned_off = last.was_off]
                r == FanUpdate(before, files, <<t, t, t>>, "none")
            IN  /\ r.pwm = last.pwm
                /\ r.fan.turned_off = fan_controllers[1].turned_off

\* ------------------------------------------------- the power cap override

CapPath(d) == <<d, "power1_cap">>

\* C22: power1_cap changes only in the first step of a cycle and in its
\* restoration, never in a tick. The cycle's first step leaves the file of a
\* device without a configured power_cap alone and writes the configured
\* value, once recorded in the ledger under one entry, to the file of a
\* device that has one, whatever the section's fan_control; a power1_cap
\* change in the restoration is a rollback write of a ledger entry.
PowerCapOneShot ==
    /\ [](last.op = "setup" /\ ~last.raised =>
            \A d \in Devices :
                /\ last.io[d] = "ok" =>
                        /\ files[CapPath(d)] = Get(CapOf(configs, d))
                        /\ CapPath(d) \in Keys(prev_values)
                /\ last.io[d] = "rd_fail" => CapPath(d) \notin Keys(prev_values))
    /\ [](\A i, j \in 1..Len(prev_values) :
            prev_values[i].key = prev_values[j].key => i = j)
    /\ [][\A d \in Devices :
            /\ files'[CapPath(d)] # files[CapPath(d)] =>
                    /\ last'.op \in {"setup", "restore"}
                    /\ last'.op = "setup" =>
                            /\ update_task = "created"
                            /\ files'[CapPath(d)] = Get(CapOf(configs, d))
                    /\ last'.op = "restore" =>
                            \E i \in 1..Len(last'.log) :
                                /\ last'.log[i].op = "rollback"
                                /\ last'.log[i].key = CapPath(d)
                                /\ last'.log[i].ok
                                /\ last'.log[i].value = files'[CapPath(d)]
            /\ (last'.op = "setup" /\ last'.io[d] \notin {"ok"})
                    => files'[CapPath(d)] = files[CapPath(d)]]_vars

\* Witness of C22: a cycle started, the card whose section has no
\* fan_control got its power cap written and has no controller.
PowerCapWithoutFanWitness ==
    /\ last.op = "setup" /\ ~last.raised
    /\ last.io[2] = "ok"
    /\ files[CapPath(2)] = CapSample.power_cap
    /\ orig_files[CapPath(2)] # CapSample.power_cap
    /\ \A i \in 1..Len(fan_controllers) : fan_controllers[i].dev # 2

\* ------------------------------------- ConfigSpec: main() from the config file
\* The daemon from the start of main(): the sections are still text, and
\* main() parses them before it creates main_task. Of the option values only
\* power_cap is kept as text here; main_pc is "main" until the parse is done.

\* int(value) of line 330 on the sample texts: None stands for ValueError
IntLiteral(text) == IF text = "150" THEN Some(CapSample.power_cap) ELSE Nothing

CapTexts == {"150", "15O"}

\* What configparser hands to main(): DEFAULT and one section per card
RawConfigFiles ==
    {<<SectionDefault,
       [SectionFirst EXCEPT !.power_cap = Some(t1)],
       [SectionSecond EXCEPT !.power_cap = Some(t2)]>> : t1, t2 \in CapTexts}

\* parse_device_config
ParseDeviceConfig(section) ==
    IF IsNone(section.power_cap)
    THEN [raised |-> FALSE, config |-> section]
    ELSE LET value == IntLiteral(Get(section.power_cap))
         IN  IF IsNone(value)
             THEN [raised |-> TRUE, config |-> section]
             ELSE [raised |-> FALSE, config |-> [section EXCEPT !.power_cap = value]]

ConfigInit ==
    /\ files \in InitFiles
    /\ orig_files = files
    /\ unplugged = {}
    /\ prev_values = <<>>
    /\ set_count = [p \in Paths |-> 0]
    /\ fan_controllers = <<>>
    /\ configs \in RawConfigFiles
    /\ wake_event = TRUE
    /\ update_task = "none"
    /\ update_cancel = FALSE
    /\ main_pc = "main"
    /\ main_waiter = "none"
    /\ main_must_cancel = FALSE
    /\ restore_count = 0
    /\ cancel_requests = 0
    /\ sleep_pending = FALSE
    /\ awaiting_restart = FALSE
    /\ sig_seen = FALSE
    /\ last = [op |-> "main"]

\* main, lines 398-408: the list comprehension of line 400 parses every
\* section; an exception of parse_device_config leaves main().
MainParse ==
    /\ main_pc = "main"
    /\ LET parsed == [i \in 1..Len(configs) |-> ParseDeviceConfig(configs[i])]
           good == {configs[i].name : i \in {j \in 1..Len(configs) : ~parsed[j].raised}}
       IN  IF \E i \in 1..Len(configs) : parsed[i].raised
           THEN /\ main_pc' = "crashed"
                /\ configs' = <<>>
                /\ last' = [op |-> "parse", raised |-> TRUE, good |-> good]
           ELSE /\ main_pc' = "init"
                /\ configs' = [i \in 1..Len(configs) |-> parsed[i].config]
                /\ last' = [op |-> "parse", raised |-> FALSE, good |-> good]
    /\ UNCHANGED <<files, orig_files, unplugged, set_count, cycleVars, wake_event, update_task,
                   update_cancel, main_waiter, main_must_cancel, histVars>>

ConfigNext == MainParse \/ (main_pc # "main" /\ Next)

ConfigSpec == ConfigInit /\ [][ConfigNext]_vars

\* C23 as stated: after main() has parsed a config file, the daemon is
\* running and every section whose values are well-formed is among the
\* sections used for matching.
MalformedSectionOnlyDropped ==
    last.op = "parse" =>
        /\ main_pc # "crashed"
        /\ \A n \in last.good : \E i \in 1..Len(configs) : configs[i].name = n

\* ------------------------------------------------- one live cycle at a time

\* C24: update_loop_task is created only when no earlier update_loop_task is
\* still live, and after a cycle that reached its loop only once its
\* restoration has run; and while a cycle is live main_async is at the await
\* of that task.
OneLiveCycle ==
    /\ [](update_task \in Live => main_pc = "await_update")
    /\ [][last'.op = "start" =>
            /\ update_task \in Done \cup {"none"}
            /\ update_task = "cancelled" => restore_count >= 1
            /\ update_task' = "created"]_vars

\* Witness of C24: a second cycle is started after a cycle that ticked and
\* was restored.
SecondCycleWitness ==
    /\ last.op = "start"
    /\ update_task = "created"
    /\ \E d \in Devices : files[<<d, "pwm1">>] # orig_files[<<d, "pwm1">>]

\* ------------------------------------------- controllers without semi-passive

ValidBounds(fan) == fan.temp_delta > 0 /\ fan.pwm_delta > 0 /\ fan.curve_pow > 0

\* C25: a controller with semi_passive off, temp_max > temp_min,
\* pwm_max > pwm_min and curve_pow > 0 never has its latch set, and every
\* tick of it writes to pwm1 a value from pwm_min to pwm_max.
NoLatchAndPwmInRange ==
    (~fan_controllers[1].semi_passive /\ ValidBounds(fan_controllers[1])) =>
        /\ ~fan_controllers[1].turned_off
        /\ last.op = "tick" =>
                /\ ~last.raised
                /\ ~IsNone(last.pwm)
                /\ Get(last.pwm) >= fan_controllers[1].pwm_min
                /\ Get(last.pwm) <= fan_controllers[1].pwm_max
                /\ files[<<1, "pwm1">>] = Get(last.pwm)

\* Witness of C25: such a controller ticked below temp_min (where a
\* semi-passive one turns the fan off) wrote a non-zero pwm_min, and ticked
\* above temp_max it wrote pwm_max.
NoLatchWitness ==
    /\ last.op = "tick"
    /\ ~fan_controllers[1].semi_passive /\ ValidBounds(fan_controllers[1])
    /\ ~IsNone(last.prev_temp)
    /\ Get(last.prev_temp) < fan_controllers[1].temp_min
    /\ last.prev_pwm = Some(fan_controllers[1].pwm_min)
    /\ fan_controllers[1].pwm_min > 0
    /\ last.temp > fan_controllers[1].temp_max
    /\ last.pwm = Some(fan_controllers[1].pwm_max)
    /\ ~fan_controllers[1].turned_off

====
